---- MODULE Spec2Model ----
(***************************************************************************)
(* A model of spare_scores.py: spare_train (validation, filtering,         *)
(* categorical encoding, grid refinement, ensemble fit, persistence) and   *)
(* spare_test (artifact loading, predictor reconciliation, encoding        *)
(* replay, per-fold scoring, leakage masking, ensemble average).           *)
(*                                                                         *)
(* Representation.                                                         *)
(*  - A column label is a sequence of one-character strings, so that       *)
(*    split('_'), int() and 'R'+suffix can be computed.  The integer label *)
(*    int(s) is the sequence <<"#">> \o (s without leading zeros): two     *)
(*    integer labels are equal exactly when the integers are, and an       *)
(*    integer label never equals a string label.                           *)
(*  - A cell is a record [t, n, s]: a number, a string or NaN.             *)
(*  - A table is [cols, rows]; a row is a sequence of cells aligned with   *)
(*    cols.  Rows are numbered from 1 (pandas numbers them from 0).        *)
(*  - A grid entry exp(n/d) is kept as the exponent [n, d]; exp is         *)
(*    strictly increasing, so entries compare as their exponents do.       *)
(*  - Scores are integers; divisions round down, as a stand-in for         *)
(*    floating-point rounding.                                             *)
(* Not modelled: the Age and Sex bookkeeping columns (age_range, the       *)
(* out-of-range warning), the performance summaries (auc, mae) and the     *)
(* printed model description.  The target column holds no missing value.   *)
(***************************************************************************)
EXTENDS Integers, Sequences, FiniteSets, TLC

(***************************************************************************)
(* Program constants.                                                      *)
(***************************************************************************)
MinGroupSize == 10
RobustGroupSize == 100
MinSampleSize == 10
RobustSampleSize == 100
RefineThreshold == 1000
SubsampleSize == 500
PrePassRepeats == 1
SpanCLoClassification == -9
SpanGammaLo == -5
SpanRegressionLo == -5
SpanHi == 5

(***************************************************************************)
(* Bounds of the model: the trainer's number of folds and of repeats (a    *)
(* fixed constant of the trainer, left open by the specification).         *)
(***************************************************************************)
NFolds == 2
NRepeats == 2

(***************************************************************************)
(* Column labels.                                                          *)
(***************************************************************************)
PTID == <<"P", "T", "I", "D">>
DX == <<"D", "X">>
ROI_101 == <<"R", "O", "I", "_", "1", "0", "1">>
ROI_102 == <<"R", "O", "I", "_", "1", "0", "2">>
ROI_007 == <<"R", "O", "I", "_", "0", "0", "7">>
V_L == <<"V", "_", "L">>
Sex == <<"S", "e", "x">>
predicted == <<"p", "r", "e", "d", "i", "c", "t", "e", "d">>

Digits == {"0", "1", "2", "3", "4", "5", "6", "7", "8", "9"}

HasUnderscore(a) == \E i \in 1..Len(a) : a[i] = "_"

\* a.split('_')[-1]: what follows the last underscore (all of a if none).
LastPart(a) ==
  LET us == {i \in 1..Len(a) : a[i] = "_"}
      k == IF us = {} THEN 0 ELSE CHOOSE i \in us : \A j \in us : j <= i
  IN SubSeq(a, k + 1, Len(a))

\* int(s) raises ValueError unless s is a non-empty string of digits.
IntRaises(s) == Len(s) = 0 \/ \E i \in 1..Len(s) : s[i] \notin Digits

\* int(s) as a column label: the number, written without leading zeros.
IntLabel(s) ==
  LET nz == {i \in 1..Len(s) : s[i] # "0"}
      k == IF nz = {} THEN Len(s) ELSE CHOOSE i \in nz : \A j \in nz : i <= j
  IN <<"#">> \o SubSeq(s, k, Len(s))

RLabel(s) == <<"R">> \o s

Range(f) == {f[i] : i \in DOMAIN f}

(***************************************************************************)
(* Cells and tables.                                                       *)
(***************************************************************************)
Num(n) == [t |-> "num", n |-> n, s |-> ""]
Str(s) == [t |-> "str", n |-> 0, s |-> s]
NaN == [t |-> "nan", n |-> 0, s |-> ""]

IsNa(c) == c.t = "nan"

NRows(df) == Len(df.rows)

\* df[c] selects the first column labelled c.
ColIdx(df, c) ==
  CHOOSE i \in 1..Len(df.cols) :
    df.cols[i] = c /\ \A j \in 1..(i - 1) : df.cols[j] # c

Col(df, c) ==
  LET k == ColIdx(df, c) IN [r \in 1..NRows(df) |-> df.rows[r][k]]

\* Series.unique(): the distinct values in first-seen order.
Unique(col) ==
  LET vals == Range(col)
      first(v) == CHOOSE i \in DOMAIN col :
                    col[i] = v /\ \A j \in 1..(i - 1) : col[j] # v
  IN [k \in 1..Cardinality(vals) |->
        CHOOSE v \in vals :
          Cardinality({w \in vals : first(w) < first(v)}) = k - 1]

\* np.min(Series.value_counts()): the size of the smallest group.
MinValueCount(col) ==
  LET vals == {v \in Range(col) : ~IsNa(v)}
      cnt(v) == Cardinality({i \in DOMAIN col : col[i] = v})
  IN cnt(CHOOSE v \in vals : \A w \in vals : cnt(v) <= cnt(w))

\* Series.dtype: strings make a column object, a missing number makes it float.
DType(col) ==
  IF \E i \in DOMAIN col : col[i].t = "str" THEN "object"
  ELSE IF \E i \in DOMAIN col : col[i].t = "nan" THEN "float64"
  ELSE "int64"

\* np.sum(np.sum(pd.isna(df[cols]))) > 0
AnyNa(df, cols) ==
  \E j \in 1..Len(cols) : \E r \in 1..NRows(df) : IsNa(Col(df, cols[j])[r])

\* df.loc[np.sum(pd.isna(df[cols]), axis=1) == 0].reset_index(drop=True)
DropNaRows(df, cols) ==
  LET ks == {ColIdx(df, cols[j]) : j \in 1..Len(cols)}
  IN [df EXCEPT !.rows =
        SelectSeq(df.rows, LAMBDA row : \A k \in ks : ~IsNa(row[k]))]

\* df[c] = values: replaces the first column labelled c, or appends it.
SetCol(df, c, values) ==
  IF c \in Range(df.cols)
  THEN LET k == ColIdx(df, c)
       IN [df EXCEPT !.rows =
             [r \in 1..NRows(df) |-> [df.rows[r] EXCEPT ![k] = values[r]]]]
  ELSE [cols |-> Append(df.cols, c),
        rows |-> [r \in 1..NRows(df) |-> Append(df.rows[r], values[r])]]

\* Series.duplicated() has a hit: two rows with the same key.
HasDuplicate(keys) ==
  Cardinality(Range(keys)) < Cardinality(DOMAIN keys)
(***************************************************************************)
(* spare_train: the FILTERS block.                                         *)
(***************************************************************************)
\* not set(predictors).issubset(df.columns)
MissingPredictors(df, predictors) ==
  ~(Range(predictors) \subseteq Range(df.cols))

\* A variant that only checks that pos_group was given.
PosGroupError_OnlyGiven(u, pos_group) ==
  IF pos_group = "" THEN "MissingPositiveGroup" ELSE "none"

\* The two checks of pos_group against the observed groups u.
PosGroupError(u, pos_group) ==
  IF pos_group = "" THEN "MissingPositiveGroup"
  ELSE IF Str(pos_group) \notin Range(u) THEN "InvalidPositiveGroup"
  ELSE "none"

\* A variant that lets a target of strings through.
NonNumericTarget_ObjectAllowed(y) ==
  DType(y) \notin {"int64", "float64", "object"}

\* The check of the target's dtype on the regression branch.
NonNumericTarget(y) == DType(y) \notin {"int64", "float64"}

\* The error the FILTERS block returns with, in the order it checks; "none"
\* when every check passes.
ValidationError(df, predictors, to_predict, pos_group) ==
  IF MissingPredictors(df, predictors) THEN "MissingPredictors"
  ELSE
    LET y == Col(df, to_predict)
        u == Unique(y)
    IN IF Len(u) = 2
       THEN IF PosGroupError(u, pos_group) # "none"
            THEN PosGroupError(u, pos_group)
            ELSE IF MinValueCount(y) < MinGroupSize
                 THEN "InsufficientGroupSize"
                 ELSE "none"
       ELSE IF Len(u) > 2
            THEN IF NonNumericTarget(y) THEN "NonNumericTarget"
                 ELSE IF NRows(df) < MinSampleSize
                      THEN "InsufficientSampleSize"
                      ELSE "none"
            ELSE "NoVariance"

\* A variant in which the size checks only warn.
Aborts_SizeOnlyWarns(err) ==
  err \notin {"none", "InsufficientGroupSize", "InsufficientSampleSize"}

\* Every failed check is `return logging.error(...)`: the call ends there.
Aborts(err) == err # "none"

SpareType(df, to_predict) ==
  IF Len(Unique(Col(df, to_predict))) = 2 THEN "classification"
  ELSE "regression"

\* [a for a in df[to_predict].unique() if a != pos_group] + [pos_group]
GroupsToClassify(df, to_predict, pos_group) ==
  SelectSeq(Unique(Col(df, to_predict)), LAMBDA a : a # Str(pos_group))
    \o <<Str(pos_group)>>

\* The warnings and notes of the FILTERS block on a table that passes it.
TrainNotes(df, predictors, to_predict, pos_group) ==
  LET y == Col(df, to_predict)
      id == Col(df, PTID)
      cls == SpareType(df, to_predict) = "classification"
  IN (IF cls /\ MinValueCount(y) < RobustGroupSize
      THEN {"GroupMayBeTooSmall"} ELSE {})
     \cup (IF ~cls /\ NRows(df) < RobustSampleSize
           THEN {"SampleMayBeTooSmall"} ELSE {})
     \cup (IF cls /\ HasDuplicate([r \in DOMAIN id |-> <<id[r], y[r]>>])
           THEN {"DuplicateParticipants"} ELSE {})
     \cup (IF ~cls /\ HasDuplicate(id)
           THEN {"DuplicateParticipants"} ELSE {})
     \cup (IF ~cls /\ pos_group # "" THEN {"PosGroupIgnored"} ELSE {})
     \cup (IF to_predict \in Range(predictors)
           THEN {"TargetRemovedFromPredictors"} ELSE {})

\* list.remove(x): removes the first occurrence of x.
ListRemove(list, x) ==
  LET k == CHOOSE i \in 1..Len(list) :
             list[i] = x /\ \A j \in 1..(i - 1) : list[j] # x
  IN SubSeq(list, 1, k - 1) \o SubSeq(list, k + 1, Len(list))

\* The predictor list after the target has been taken out of it.
RemoveTarget(predictors, to_predict) ==
  IF to_predict \in Range(predictors)
  THEN ListRemove(predictors, to_predict)
  ELSE predictors

(***************************************************************************)
(* Categorical variables.                                                  *)
(***************************************************************************)
NoMap == [isDict |-> FALSE, keys |-> <<>>]

\* {df[var].unique()[0]: 1, df[var].unique()[1]: 2}, kept as its key list.
BuildMap(col) ==
  IF Len(Unique(col)) = 2
  THEN [isDict |-> TRUE, keys |-> Unique(col)]
  ELSE NoMap

\* The predictors of object dtype, in the order of the predictor list.
VarCategorical(df, predictors) ==
  SelectSeq(predictors, LAMBDA c : DType(Col(df, c)) = "object")

\* Series.map(dict): a value that is no key becomes NaN.
MapCell(m, c) ==
  IF c = m.keys[1] THEN Num(1)
  ELSE IF c = m.keys[2] THEN Num(2)
  ELSE NaN

MapCol(m, col) == [r \in DOMAIN col |-> MapCell(m, col[r])]

\* The loop over var_categorical, from its k-th variable on: builds the map
\* of each two-valued variable and encodes its column.
RECURSIVE EncodeFrom(_, _, _, _)
EncodeFrom(df, vars, k, maps) ==
  IF k > Len(vars) THEN [df |-> df, maps |-> maps]
  ELSE LET var == vars[k]
           m == BuildMap(Col(df, var))
       IN EncodeFrom(IF m.isDict THEN SetCol(df, var, MapCol(m, Col(df, var)))
                     ELSE df,
                     vars, k + 1, [maps EXCEPT ![var] = m])

EncodeCategorical(df, predictors) ==
  LET vars == VarCategorical(df, predictors)
  IN EncodeFrom(df, vars, 1, [v \in Range(vars) |-> NoMap])

(***************************************************************************)
(* Parameter grids.                                                        *)
(***************************************************************************)
\* np.linspace(a, b, num): num evenly spaced exponents from a to b.
Linspace(a, b, num) ==
  IF num = 1 THEN <<[n |-> a, d |-> 1]>>
  ELSE [j \in 1..num |->
          [n |-> a * (num - 1) + (j - 1) * (b - a), d |-> num - 1]]

\* A variant with one grid point more than the span has integers.
expspace_OnePointMore(span) ==
  Linspace(span[1], span[2], span[2] - span[1] + 2)

\* np.exp(np.linspace(span[0], span[1], num=int(span[1])-int(span[0])+1));
\* the spans are integral, so int() leaves them as they are.
expspace(span) == Linspace(span[1], span[2], span[2] - span[1] + 1)

\* The coarse grid of each spare_type and kernel.
CoarseGrid(spare_type, kernel) ==
  IF spare_type = "classification"
  THEN IF kernel = "linear"
       THEN [par \in {"C"} |-> expspace(<<SpanCLoClassification, SpanHi>>)]
       ELSE [par \in {"C", "gamma"} |->
               IF par = "C" THEN expspace(<<SpanCLoClassification, SpanHi>>)
               ELSE expspace(<<SpanGammaLo, SpanHi>>)]
  ELSE [par \in {"C", "epsilon"} |-> expspace(<<SpanRegressionLo, SpanHi>>)]

SeqMin(s) == CHOOSE v \in Range(s) : \A w \in Range(s) : v <= w
SeqMax(s) == CHOOSE v \in Range(s) : \A w \in Range(s) : w <= v

\* param_grid[par] = _expspace([np.min(optimal), np.max(optimal)]) for each par
RefinedGrid(param_grid, optimal) ==
  [par \in DOMAIN param_grid |->
     expspace(<<SeqMin(optimal[par]), SeqMax(optimal[par])>>)]

\* len(df.index) > 1000
NeedsRefinement(df) == NRows(df) > RefineThreshold
(***************************************************************************)
(* spare_test: scoring.                                                    *)
(***************************************************************************)
\* scaler.transform on one cell of predictor j: a missing value stays missing.
Transform(scaler, cell, j) ==
  IF cell.t = "num" THEN Num(cell.n - scaler.mean_[j]) ELSE NaN

RECURSIVE Dot(_, _, _)
Dot(X, coef, j) ==
  IF j > Len(X) THEN 0 ELSE X[j].n * coef[j] + Dot(X, coef, j + 1)

\* linear: np.sum(X * coef_, axis=1) + intercept_; otherwise the solver's
\* decision_function.  A missing predictor makes the sum missing.
Decision(kernel, m, X) ==
  IF \E j \in 1..Len(X) : IsNa(X[j]) THEN NaN
  ELSE IF kernel = "linear" THEN Num(Dot(X, m.coef_, 1) + m.intercept_)
  ELSE Num(m.intercept_ - Dot(X, m.coef_, 1))

\* (ss - bias_correct['int'][i]) / bias_correct['slope'][i], regression only
BiasCorrect(spare_type, v, int, slope) ==
  IF spare_type = "regression" /\ ~IsNa(v) THEN Num((v.n - int) \div slope)
  ELSE v

\* A variant that masks by the held-out rows of the fold.
MaskedRows_HeldOut(ids, cvIds, fold) ==
  LET heldIds == {cvIds[t] : t \in fold[2]}
  IN {r \in DOMAIN ids : ids[r] \in heldIds}

\* df['PTID'].isin(cv_results['PTID'][cv_folds[i][0]]): the rows whose
\* identifier is the identifier of a row of the fold's training partition.
MaskedRows(ids, cvIds, fold) ==
  LET trainIds == {cvIds[t] : t \in fold[1]}
  IN {r \in DOMAIN ids : ids[r] \in trainIds}

\* Column i of ss before the masking: the scores of fold-model i on table df.
RawScores(df, predictors, spare_type, kernel, model, i) ==
  LET ks == [j \in 1..Len(predictors) |-> ColIdx(df, predictors[j])]
      X(r) == [j \in 1..Len(predictors) |->
                 Transform(model.scaler[i], df.rows[r][ks[j]], j)]
  IN [r \in 1..NRows(df) |->
        BiasCorrect(spare_type, Decision(kernel, model.mdl[i], X(r)),
                    model.bias_correct.int[i], model.bias_correct.slope[i])]

\* Column i of ss: the scores of fold-model i, set to NaN on the masked rows.
FoldScores(df, predictors, spare_type, kernel, model, cvIds, i) ==
  LET raw == RawScores(df, predictors, spare_type, kernel, model, i)
      masked == MaskedRows(Col(df, PTID), cvIds, model.cv_folds[i])
  IN [r \in 1..NRows(df) |-> IF r \in masked THEN NaN ELSE raw[r]]

RECURSIVE SumAvailable(_, _)
SumAvailable(v, i) ==
  IF i > Len(v) THEN 0
  ELSE (IF IsNa(v[i]) THEN 0 ELSE v[i].n) + SumAvailable(v, i + 1)

\* A variant that averages over every fold, available or not.
NanMean_OverAllFolds(v) ==
  IF \A i \in 1..Len(v) : IsNa(v[i]) THEN NaN
  ELSE Num(SumAvailable(v, 1) \div Len(v))

\* np.nanmean of one row of ss: the mean of the scores that are not NaN,
\* NaN when there is none.
NanMean(v) ==
  LET cnt == Cardinality({i \in 1..Len(v) : ~IsNa(v[i])})
  IN IF cnt = 0 THEN NaN ELSE Num(SumAvailable(v, 1) \div cnt)

(***************************************************************************)
(* The trainer (run_SVC, run_SVR of the svm module): repeated k-fold       *)
(* cross-validation, one scaler and one model per fold, the per-fold       *)
(* optimal hyperparameters.  The fitted numbers are the solver's; the      *)
(* model gives them fixed values that differ from fold to fold.            *)
(***************************************************************************)
Layouts == {"block", "stride"}

\* The held-out rows of fold k of one repeat over n rows.
TestPart(n, layout, k) ==
  IF layout = "block"
  THEN {r \in 1..n : ((r - 1) * NFolds) \div n = k - 1}
  ELSE {r \in 1..n : (r - 1) % NFolds = k - 1}

\* cv_folds: per repeat and fold, (training rows, held-out rows).
CvFolds(n, layouts) ==
  [i \in 1..(Len(layouts) * NFolds) |->
     LET test == TestPart(n, layouts[(i - 1) \div NFolds + 1],
                          ((i - 1) % NFolds) + 1)
     IN <<(1..n) \ test, test>>]

\* The scaler fitted on the training rows of a fold.
FitScaler(df, predictors, train) ==
  [mean_ |->
     [j \in 1..Len(predictors) |->
        LET col == Col(df, predictors[j])
            vs == {col[r].n : r \in train}
        IN IF vs = {} THEN 0 ELSE CHOOSE v \in vs : \A w \in vs : v <= w]]

FitModel(predictors, i) ==
  [coef_ |-> [j \in 1..Len(predictors) |-> 1 + ((i + j) % 2)],
   intercept_ |-> i]

OptPatterns == {"first", "last", "spread"}

\* The natural log of the optimal entries of grid g, one per fold.
Optimal(g, pattern, nfolds) ==
  [i \in 1..nfolds |->
     LET e == IF pattern = "first" THEN g[1]
              ELSE IF pattern = "last" THEN g[Len(g)]
              ELSE g[IF i <= Len(g) THEN i ELSE Len(g)]
     IN e.n \div e.d]

\* The ensemble the trainer returns: scalers, models, folds, bias correction.
FitEnsemble(df, predictors, layouts) ==
  LET folds == CvFolds(NRows(df), layouts)
  IN [scaler |-> [i \in DOMAIN folds |->
                    FitScaler(df, predictors, folds[i][1])],
      mdl |-> [i \in DOMAIN folds |-> FitModel(predictors, i)],
      cv_folds |-> folds,
      bias_correct |-> [int |-> [i \in DOMAIN folds |-> i % 2],
                        slope |-> [i \in DOMAIN folds |-> 1 + (i % 2)]]]

\* The out-of-fold predictions: each row scored by the model of the fold of
\* the first repeat that held it out.
OutOfFold(df, predictors, spare_type, kernel, model) ==
  LET heldBy(r) == CHOOSE i \in 1..NFolds : r \in model.cv_folds[i][2]
  IN [r \in 1..NRows(df) |->
        RawScores(df, predictors, spare_type, kernel, model, heldBy(r))[r]]

\* The per-fold optimal hyperparameters the trainer reports.
OptimalParams(param_grid, patterns, nfolds) ==
  [par \in DOMAIN param_grid |->
     Optimal(param_grid[par], patterns[par], nfolds)]

\* df.sample(n=500, random_state=2022).reset_index(drop=True)
Sample(df, k) == [df EXCEPT !.rows = [j \in 1..k |-> df.rows[2 * j - 1]]]
\* The solver's input check: scaler.transform cannot convert a string, and a
\* decision_function refuses a missing value.
SolverRejects(df, predictors, kernel) ==
  \E j \in 1..Len(predictors) : \E r \in 1..NRows(df) :
    LET c == Col(df, predictors[j])[r]
    IN c.t = "str" \/ (kernel # "linear" /\ IsNa(c))

(***************************************************************************)
(* spare_test: the FILTERS block (predictor reconciliation) and the        *)
(* replay of the categorical maps.                                         *)
(***************************************************************************)
\* dict(zip(keys, vals))[c]: the last pair with key c wins.
DictGet(keys, vals, c) ==
  vals[CHOOSE j \in 1..Len(keys) :
         keys[j] = c /\ \A k \in (j + 1)..Len(keys) : keys[k] # c]

\* df.rename(columns=dict(zip(keys, vals)))
Rename(cols, keys, vals) ==
  [i \in DOMAIN cols |->
     IF cols[i] \in Range(keys) THEN DictGet(keys, vals, cols[i]) ELSE cols[i]]

\* [a for a in metaData['predictors'] if '_' in a]
RoiName(predictors) == SelectSeq(predictors, HasUnderscore)

\* The c-th alternate naming of the ROI predictors: int(suffix), suffix,
\* 'R'+suffix.
RoiAlter(roi_name, c) ==
  [j \in DOMAIN roi_name |->
     IF c = 1 THEN IntLabel(LastPart(roi_name[j]))
     ELSE IF c = 2 THEN LastPart(roi_name[j])
     ELSE RLabel(LastPart(roi_name[j]))]

\* The loop over the three alternate namings, from the c-th on.
RECURSIVE TryAlternates(_, _, _)
TryAlternates(cols, roi_name, c) ==
  IF c > 3 THEN cols
  ELSE LET alt == RoiAlter(roi_name, c)
       IN TryAlternates(IF Range(alt) \subseteq Range(cols)
                        THEN Rename(cols, alt, roi_name)
                        ELSE cols,
                        roi_name, c + 1)

\* The outcome of the reconciliation: whether it returns an error, the
\* columns it leaves, and the columns the error names.
Reconcile(cols, predictors) ==
  LET notFound == Range(predictors) \ Range(cols)
      roi_name == RoiName(predictors)
  IN IF notFound = {} THEN [err |-> FALSE, cols |-> cols, named |-> {}]
     ELSE IF \E a \in notFound : ~HasUnderscore(a)
     THEN [err |-> TRUE, cols |-> cols, named |-> notFound]
     ELSE IF \E j \in DOMAIN roi_name : IntRaises(LastPart(roi_name[j]))
     THEN [err |-> TRUE, cols |-> cols, named |-> notFound]
     ELSE LET new == TryAlternates(cols, roi_name, 1)
              left == Range(predictors) \ Range(new)
          IN [err |-> left # {}, cols |-> new, named |-> left]

\* np.all(df[var].isin(map.keys()))
AllKnown(m, col) == \A r \in DOMAIN col : col[r] \in Range(m.keys)

\* The loop over the stored maps, from its k-th variable on.
RECURSIVE ReplayFrom(_, _, _, _)
ReplayFrom(df, vars, maps, k) ==
  IF k > Len(vars) THEN [err |-> FALSE, df |-> df]
  ELSE LET var == vars[k]
           m == maps[var]
       IN IF ~m.isDict THEN ReplayFrom(df, vars, maps, k + 1)
          ELSE IF AllKnown(m, Col(df, var))
          THEN ReplayFrom(SetCol(df, var, MapCol(m, Col(df, var))),
                          vars, maps, k + 1)
          ELSE [err |-> TRUE, df |-> df]
(***************************************************************************)
(* Inputs: the tables, predictor lists and options the calls are given.    *)
(***************************************************************************)
SecondLabel(second) ==
  IF second = "ROI_102" THEN ROI_102
  ELSE IF second = "ROI_007" THEN ROI_007
  ELSE IF second = "V_L" THEN V_L
  ELSE Sex

\* The table of p.n rows: an identifier, the target, predictor ROI_101 and
\* an optional second predictor.  Rows p.nan1 (p.nan2) miss the first
\* (second) predictor; row p.dup[2] carries the identifier of row p.dup[1].
MkTable(p) ==
  LET id(r) == Str(ToString(IF r = p.dup[2] THEN p.dup[1] ELSE r))
      target(r) ==
        IF p.tkind = "bin"
        THEN (IF r <= p.n - p.npos THEN Str("CN") ELSE Str("AD"))
        ELSE IF p.tkind = "num2" THEN Num(r % 2)
        ELSE IF p.tkind = "num3" THEN Num(r % 3)
        ELSE IF p.tkind = "str3"
        THEN Str(IF r % 3 = 0 THEN "A" ELSE IF r % 3 = 1 THEN "B" ELSE "C")
        ELSE Str("CN")
      first(r) == IF r \in p.nan1 THEN NaN ELSE Num(r % 5)
      second(r) ==
        IF r \in p.nan2 THEN NaN
        ELSE IF p.second = "Sex" THEN Str(IF r % 2 = 1 THEN "M" ELSE "F")
        ELSE Num((r * r) % 7)
  IN [cols |-> <<PTID, DX, ROI_101>>
                 \o (IF p.second = "none" THEN <<>>
                     ELSE <<SecondLabel(p.second)>>),
      rows |-> [r \in 1..p.n |->
                  <<id(r), target(r), first(r)>>
                    \o (IF p.second = "none" THEN <<>> ELSE <<second(r)>>)]]

NoDup == <<0, 0>>

Tab(n, tkind, npos, second, nan1, nan2, dup) ==
  [n |-> n, tkind |-> tkind, npos |-> npos, second |-> second,
   nan1 |-> nan1, nan2 |-> nan2, dup |-> dup]

\* The label under which a table offered to spare_test carries column c.
TestLabel(c, tag) ==
  IF tag = "int" THEN IntLabel(LastPart(c))
  ELSE IF tag = "raw" THEN LastPart(c)
  ELSE IF tag = "R" THEN RLabel(LastPart(c))
  ELSE IF tag = "gone" THEN <<"x">> \o c
  ELSE c

Tags(c) ==
  IF IntRaises(LastPart(c)) THEN {"keep", "raw", "R", "gone"}
  ELSE {"keep", "int", "raw", "R", "gone"}

KeepAll == [c \in {ROI_101, ROI_102, ROI_007, V_L} |-> "keep"]

SameTable(src) == [src |-> src, tags |-> KeepAll, defect |-> "none"]

Scenario(tab, predictors, pos_group, kernel, save_mdl, test) ==
  [tab |-> tab, predictors |-> predictors, to_predict |-> DX,
   pos_group |-> pos_group, kernel |-> kernel, save_mdl |-> save_mdl,
   save_csv |-> (tab.n % 2 = 0), test |-> test]

\* Tables around the size thresholds of the validation, with every kind of
\* target, predictor lists that name the target or a missing column.
ValidationTables ==
  {Tab(2 * MinGroupSize, "bin", MinGroupSize, "none", {}, {}, NoDup),
   Tab(2 * MinGroupSize, "bin", MinGroupSize - 1, "none", {}, {}, NoDup),
   Tab(2 * MinGroupSize, "bin", MinGroupSize, "none",
       {2 * MinGroupSize}, {}, NoDup),
   Tab(2 * MinGroupSize, "bin", MinGroupSize, "none",
       (MinGroupSize + 1)..(2 * MinGroupSize), {}, NoDup),
   Tab(2 * MinGroupSize, "num2", 0, "none", {}, {}, NoDup),
   Tab(MinSampleSize - 1, "num3", 0, "none", {}, {}, NoDup),
   Tab(MinSampleSize, "num3", 0, "none", {}, {}, NoDup),
   Tab(MinSampleSize, "num3", 0, "none", {2}, {}, NoDup),
   Tab(MinSampleSize + 1, "num3", 0, "none", {2}, {}, NoDup),
   Tab(MinSampleSize - 1, "str3", 0, "none", {}, {}, NoDup),
   Tab(MinSampleSize, "str3", 0, "none", {}, {}, NoDup),
   Tab(MinSampleSize, "one", 0, "none", {}, {}, NoDup)}

ValidationScenarios ==
  {Scenario(tab, predictors, pos_group, kernel, kernel = "linear",
            SameTable("contents")) :
     tab \in ValidationTables,
     predictors \in {<<ROI_101>>, <<ROI_101, DX>>, <<DX, ROI_101, DX>>,
                     <<ROI_101, ROI_102>>},
     pos_group \in {"", "AD", "XX"},
     kernel \in {"linear", "rbf"}}

\* Tables around the refinement threshold.
LargeScenarios ==
  {Scenario(tab, <<ROI_101>>, "AD", kernel, TRUE,
            [src |-> "head", tags |-> KeepAll, defect |-> "none"]) :
     tab \in {Tab(RefineThreshold, "bin", SubsampleSize, "none", {}, {}, NoDup),
              Tab(RefineThreshold + 1, "bin", SubsampleSize, "none", {}, {},
                  NoDup),
              Tab(RefineThreshold + 2, "bin", SubsampleSize, "none", {1, 2},
                  {}, NoDup),
              Tab(RefineThreshold, "num3", 0, "none", {}, {}, NoDup),
              Tab(RefineThreshold + 1, "num3", 0, "none", {}, {}, NoDup)},
     kernel \in {"linear", "rbf"}}

\* Round trips: spare_test on the table spare_train was given, with shared
\* identifiers, missing predictor values and a categorical predictor.
RoundTripScenarios ==
  {Scenario(Tab(n, "num3", 0, second, nan1, nan2, dup),
            <<ROI_101>> \o (IF second = "none" THEN <<>> ELSE <<Sex>>),
            "", kernel, TRUE, SameTable(src)) :
     n \in {MinSampleSize, MinSampleSize + 1},
     second \in {"none", "Sex"},
     nan1 \in {{}, {4}},
     nan2 \in {{}, {5}},
     dup \in {NoDup, <<1, 2>>, <<1, 3>>},
     kernel \in {"linear", "rbf"},
     src \in {"object", "contents"}}
  \cup
  {Scenario(Tab(2 * MinGroupSize, "bin", MinGroupSize, "none", {}, {}, dup),
            <<ROI_101>>, "AD", "linear", TRUE, SameTable("contents")) :
     dup \in {NoDup, <<1, 2>>}}

\* spare_test on a table whose columns follow another naming, or whose
\* categorical column holds a missing or an unseen value.
RenamedScenarios ==
  UNION
    {{Scenario(Tab(MinSampleSize, "num3", 0, second, {}, {}, NoDup),
               <<ROI_101, SecondLabel(second)>>, "", "linear", TRUE,
               [src |-> "contents",
                tags |-> [KeepAll EXCEPT ![ROI_101] = t1,
                                         ![SecondLabel(second)] = t2],
                defect |-> "none"]) :
        t1 \in Tags(ROI_101), t2 \in Tags(SecondLabel(second))} :
     second \in {"ROI_102", "ROI_007", "V_L"}}
  \cup
  {Scenario(Tab(MinSampleSize, "num3", 0, "Sex", {}, {}, NoDup),
            <<ROI_101, Sex>>, "", kernel, TRUE,
            [src |-> "contents",
             tags |-> [KeepAll EXCEPT ![ROI_101] = t1],
             defect |-> defect]) :
     t1 \in {"keep", "raw"},
     defect \in {"none", "nan_roi", "nan_sex", "unseen_sex"},
     kernel \in {"linear", "rbf"}}

Scenarios ==
  ValidationScenarios \cup LargeScenarios \cup RoundTripScenarios
    \cup RenamedScenarios

\* The table spare_test is called with.
TestTable(object, contents, test) ==
  LET base == IF test.src = "object" THEN object
              ELSE IF test.src = "head"
              THEN [contents EXCEPT !.rows = SubSeq(contents.rows, 1, 3)]
              ELSE contents
      cell(r, k) ==
        IF r = 1 /\ test.defect = "nan_roi" /\ base.cols[k] = ROI_101 THEN NaN
        ELSE IF r = 1 /\ test.defect = "nan_sex" /\ base.cols[k] = Sex THEN NaN
        ELSE IF r = 1 /\ test.defect = "unseen_sex" /\ base.cols[k] = Sex
        THEN Str("X")
        ELSE base.rows[r][k]
  IN [cols |-> [k \in DOMAIN base.cols |->
                  IF base.cols[k] \in DOMAIN test.tags
                  THEN TestLabel(base.cols[k], test.tags[base.cols[k]])
                  ELSE base.cols[k]],
      rows |-> [r \in DOMAIN base.rows |->
                  [k \in DOMAIN base.cols |-> cell(r, k)]]]
(***************************************************************************)
(* State.                                                                  *)
(***************************************************************************)
VARIABLES
  args,        \* to_predict, pos_group, kernel, save_mdl, save_csv, test
  contents,    \* the contents of the table as the caller first held it
  callerDf,    \* the caller's table object
  predictors,  \* the caller's predictor list object
  pc,          \* where the calls are
  df,          \* spare_train's local table
  aliased,     \* whether df still is the caller's table object
  trainErr,    \* the error spare_train returned with, or "none"
  spare_type,  \* the SPARE type the FILTERS block determined
  groups_to_classify,
  log,         \* the warnings and notes reported so far
  metaData,    \* spare_train's metadata
  mdl,         \* the fitted ensemble
  fits,        \* the calls made to the trainer
  artifact,    \* the model file on disk
  tdf,         \* spare_test's local table
  ss,          \* the columns of the score matrix computed so far
  results,     \* SPARE_scores
  testErr,     \* the error spare_test returned with, or "none"
  csv          \* the score file on disk

vars ==
  <<args, contents, callerDf, predictors, pc, df, aliased, trainErr,
    spare_type, groups_to_classify, log, metaData, mdl, fits, artifact, tdf,
    ss, results, testErr, csv>>

NoTable == [cols |-> <<>>, rows |-> <<>>]
NoFile == [written |-> FALSE]

Init ==
  \E sc \in Scenarios :
    /\ args = [to_predict |-> sc.to_predict, pos_group |-> sc.pos_group,
               kernel |-> sc.kernel, save_mdl |-> sc.save_mdl,
               save_csv |-> sc.save_csv, test |-> sc.test]
    /\ contents = MkTable(sc.tab)
    /\ callerDf = MkTable(sc.tab)
    /\ predictors = sc.predictors
    /\ pc = "train_filters"
    /\ df = MkTable(sc.tab)
    /\ aliased = TRUE
    /\ trainErr = "none"
    /\ spare_type = "none"
    /\ groups_to_classify = <<>>
    /\ log = {}
    /\ metaData = [n |-> 0]
    /\ mdl = <<>>
    /\ fits = <<>>
    /\ artifact = NoFile
    /\ tdf = NoTable
    /\ ss = <<>>
    /\ results = <<>>
    /\ testErr = [kind |-> "none", named |-> {}]
    /\ csv = NoFile

(***************************************************************************)
(* spare_train.                                                            *)
(***************************************************************************)
\* The FILTERS block: validation, then the target leaves the predictor list
\* and the rows with a missing predictor leave the table.
TrainFilters ==
  /\ pc = "train_filters"
  /\ LET err == ValidationError(df, predictors, args.to_predict,
                                args.pos_group)
     IN /\ trainErr' = err
        /\ IF Aborts(err)
           THEN /\ pc' = "train_failed"
                /\ UNCHANGED <<predictors, df, aliased, log, spare_type,
                               groups_to_classify>>
           ELSE LET kept == RemoveTarget(predictors, args.to_predict)
                    drop == AnyNa(df, kept)
                IN /\ pc' = "train_encode"
                   /\ spare_type' = SpareType(df, args.to_predict)
                   /\ groups_to_classify' =
                        IF SpareType(df, args.to_predict) = "classification"
                        THEN GroupsToClassify(df, args.to_predict,
                                              args.pos_group)
                        ELSE <<>>
                   /\ predictors' = kept
                   /\ df' = IF drop THEN DropNaRows(df, kept) ELSE df
                   /\ aliased' = ~drop
                   /\ log' = log
                        \cup TrainNotes(df, predictors, args.to_predict,
                                        args.pos_group)
                        \cup (IF drop THEN {"RowsExcluded"} ELSE {})
  /\ UNCHANGED <<args, contents, callerDf, metaData, mdl, fits, artifact,
                 tdf, ss, results, testErr, csv>>

\* The metadata is initiated and the categorical predictors are encoded.
TrainEncode ==
  /\ pc = "train_encode"
  /\ LET enc == EncodeCategorical(df, predictors)
     IN /\ metaData' =
             [spare_type |-> spare_type,
              kernel |-> args.kernel,
              n |-> NRows(df),
              to_predict |-> args.to_predict,
              predictors |-> predictors,
              var_categorical |-> VarCategorical(df, predictors),
              categorical_var_map |-> enc.maps,
              cv_results |-> NoTable]
        /\ df' = enc.df
        /\ callerDf' = IF aliased THEN enc.df ELSE callerDf
  /\ pc' = "train_fit"
  /\ UNCHANGED <<args, contents, predictors, aliased, trainErr,
                 spare_type, groups_to_classify, log, mdl,
                 fits, artifact, tdf, ss, results, testErr, csv>>

\* The coarse grid, its refinement on a subsample of a large table, and the
\* fit of the ensemble on the whole table.
TrainFit ==
  /\ pc = "train_fit"
  /\ \E layouts \in [1..NRepeats -> Layouts] :
     \E patterns \in [DOMAIN CoarseGrid(metaData.spare_type, args.kernel)
                        -> OptPatterns] :
       LET coarse == CoarseGrid(metaData.spare_type, args.kernel)
           refine == NeedsRefinement(df)
           sample == Sample(df, SubsampleSize)
           pre == OptimalParams(coarse, patterns, PrePassRepeats * NFolds)
           param_grid == IF refine THEN RefinedGrid(coarse, pre) ELSE coarse
       IN /\ refine \/ \A par \in DOMAIN patterns : patterns[par] = "first"
          /\ fits' = fits
               \o (IF refine
                   THEN <<[n |-> NRows(sample), n_repeats |-> PrePassRepeats,
                           param_grid |-> coarse, optimal |-> pre]>>
                   ELSE <<>>)
               \o <<[n |-> NRows(df), n_repeats |-> NRepeats,
                     param_grid |-> param_grid,
                     optimal |-> OptimalParams(
                                   param_grid,
                                   [par \in DOMAIN coarse |-> "spread"],
                                   NRepeats * NFolds)]>>
          /\ mdl' = FitEnsemble(df, predictors, layouts)
          /\ df' = SetCol(df, predicted,
                          OutOfFold(df, predictors, metaData.spare_type,
                                    args.kernel, mdl'))
          /\ callerDf' = IF aliased THEN df' ELSE callerDf
          /\ metaData' =
               [metaData EXCEPT
                  !.cv_results =
                    [cols |-> <<PTID, args.to_predict, predicted>>,
                     rows |-> [r \in 1..NRows(df') |->
                                 <<df'.rows[r][ColIdx(df', PTID)],
                                   df'.rows[r][ColIdx(df', args.to_predict)],
                                   df'.rows[r][ColIdx(df', predicted)]>>]]]
  /\ pc' = "train_save"
  /\ UNCHANGED <<args, contents, predictors, aliased, trainErr,
                 spare_type, groups_to_classify, log,
                 artifact, tdf, ss, results, testErr, csv>>

\* The model and its metadata are written and returned.
TrainSave ==
  /\ pc = "train_save"
  /\ artifact' = IF args.save_mdl
                 THEN [written |-> TRUE, mdl |-> mdl, metaData |-> metaData]
                 ELSE artifact
  /\ pc' = "train_done"
  /\ UNCHANGED <<args, contents, callerDf, predictors, df, aliased, trainErr,
                 spare_type, groups_to_classify,
                 log, metaData, mdl, fits, tdf, ss, results, testErr, csv>>

(***************************************************************************)
(* spare_test.                                                             *)
(***************************************************************************)
\* load_model(mdl_path) and df.copy()
TestLoad ==
  /\ pc = "train_done"
  /\ artifact.written
  /\ tdf' = TestTable(callerDf, contents, args.test)
  /\ pc' = "test_filters"
  /\ UNCHANGED <<args, contents, callerDf, predictors, df, aliased, trainErr,
                 spare_type, groups_to_classify,
                 log, metaData, mdl, fits, artifact, ss, results, testErr,
                 csv>>

\* The FILTERS block: predictor reconciliation, then the warnings.
TestFilters ==
  /\ pc = "test_filters"
  /\ LET meta == artifact.metaData
         rec == Reconcile(tdf.cols, meta.predictors)
         new == [tdf EXCEPT !.cols = rec.cols]
     IN IF rec.err
        THEN /\ testErr' = [kind |-> "MissingPredictors", named |-> rec.named]
             /\ pc' = "test_failed"
             /\ UNCHANGED <<tdf, log>>
        ELSE /\ tdf' = new
             /\ log' = log
                  \cup (IF AnyNa(new, meta.predictors)
                        THEN {"InvalidPredictorValues"} ELSE {})
                  \cup (IF \E r \in 1..NRows(new) :
                             Col(new, PTID)[r]
                               \in Range(Col(meta.cv_results, PTID))
                        THEN {"MatchingTrainingIds"} ELSE {})
             /\ pc' = "test_encode"
             /\ UNCHANGED testErr
  /\ UNCHANGED <<args, contents, callerDf, predictors, df, aliased, trainErr,
                 spare_type, groups_to_classify,
                 metaData, mdl, fits, artifact, ss, results, csv>>

\* The stored categorical maps are replayed.
TestEncode ==
  /\ pc = "test_encode"
  /\ LET meta == artifact.metaData
         rep == ReplayFrom(tdf, meta.var_categorical,
                           meta.categorical_var_map, 1)
     IN IF rep.err
        THEN /\ testErr' = [kind |-> "UnknownCategoricalValue", named |-> {}]
             /\ pc' = "test_failed"
             /\ UNCHANGED tdf
        ELSE /\ tdf' = rep.df
             /\ pc' = "test_score"
             /\ UNCHANGED testErr
  /\ UNCHANGED <<args, contents, callerDf, predictors, df, aliased, trainErr,
                 spare_type, groups_to_classify,
                 log, metaData, mdl, fits, artifact, ss, results, csv>>

\* One pass of the loop over the ensemble: the scores of the next fold-model,
\* with the rows of its training partition masked.
TestScore ==
  /\ pc = "test_score"
  /\ LET meta == artifact.metaData
         n_ensemble == Len(artifact.mdl.scaler)
         i == Len(ss) + 1
     IN IF SolverRejects(tdf, meta.predictors, meta.kernel)
        THEN /\ testErr' = [kind |-> "SolverError", named |-> {}]
             /\ pc' = "test_failed"
             /\ UNCHANGED ss
        ELSE /\ ss' = Append(ss, FoldScores(tdf, meta.predictors,
                                            meta.spare_type, meta.kernel,
                                            artifact.mdl,
                                            Col(meta.cv_results, PTID), i))
             /\ pc' = IF i = n_ensemble THEN "test_mean" ELSE "test_score"
             /\ UNCHANGED testErr
  /\ UNCHANGED <<args, contents, callerDf, predictors, df, aliased, trainErr,
                 spare_type, groups_to_classify,
                 log, metaData, mdl, fits, artifact, tdf, results, csv>>

\* The ensemble average, and the score file if one was asked for.
TestFinish ==
  /\ pc = "test_mean"
  /\ results' = [r \in 1..NRows(tdf) |->
                   NanMean([i \in 1..Len(ss) |-> ss[i][r]])]
  /\ csv' = IF args.save_csv
            THEN [written |-> TRUE, scores |-> results']
            ELSE csv
  /\ pc' = "test_done"
  /\ UNCHANGED <<args, contents, callerDf, predictors, df, aliased, trainErr,
                 spare_type, groups_to_classify,
                 log, metaData, mdl, fits, artifact, tdf, ss, testErr>>

Next ==
  \/ TrainFilters
  \/ TrainEncode
  \/ TrainFit
  \/ TrainSave
  \/ TestLoad
  \/ TestFilters
  \/ TestEncode
  \/ TestScore
  \/ TestFinish

Spec == Init /\ [][Next]_vars

(***************************************************************************)
(* Vocabulary of the properties.                                           *)
(***************************************************************************)
\* spare_test is called with the table spare_train was given.
RoundTrip ==
  /\ args.test.src \in {"contents", "object"}
  /\ args.test.defect = "none"
  /\ \A c \in DOMAIN args.test.tags : args.test.tags[c] = "keep"

TrainSucceeded ==
  pc \in {"train_done", "test_filters", "test_encode", "test_score",
          "test_mean", "test_done", "test_failed"}

\* spare_test has left its FILTERS block without an error.
PastTestFilters ==
  \/ pc \in {"test_encode", "test_score", "test_mean", "test_done"}
  \/ pc = "test_failed" /\ testErr.kind # "MissingPredictors"

Scored == pc \in {"test_mean", "test_done"}

\* Row r of the given table has every predictor, so training kept it, as row
\* TrainRow(r) of the table the trainer saw.
Kept(r) ==
  \A c \in Range(metaData.predictors) : ~IsNa(Col(contents, c)[r])

TrainRow(r) == Cardinality({q \in 1..r : Kept(q)})

TrainMember(r, i) == Kept(r) /\ TrainRow(r) \in mdl.cv_folds[i][1]

HeldOut(r, i) == Kept(r) /\ TrainRow(r) \in mdl.cv_folds[i][2]

Id(r) == Col(contents, PTID)[r]

\* Row r shares its identifier with a row of fold i's training partition.
IdInTraining(r, i) ==
  \E q \in 1..NRows(contents) : TrainMember(q, i) /\ Id(q) = Id(r)

TargetValues == Range(Col(contents, args.to_predict))

ValidPosGroup ==
  args.pos_group # "" /\ Str(args.pos_group) \in TargetValues

PredictorsExist == Range(predictors) \subseteq Range(contents.cols)

Validated == pc # "train_filters"

\* Grid g is exp of the integers lo, lo+1, ..., hi.
IsExpGrid(g, lo, hi) ==
  /\ Len(g) = hi - lo + 1
  /\ \A j \in 1..Len(g) : g[j].d > 0 /\ g[j].n = (lo + j - 1) * g[j].d
  /\ \A j \in 1..(Len(g) - 1) : g[j].n * g[j + 1].d < g[j + 1].n * g[j].d

IsCoarseGrid(grid) ==
  IF spare_type = "classification"
  THEN /\ DOMAIN grid = IF args.kernel = "linear" THEN {"C"}
                        ELSE {"C", "gamma"}
       /\ IsExpGrid(grid["C"], SpanCLoClassification, SpanHi)
       /\ args.kernel # "linear"
            => IsExpGrid(grid["gamma"], SpanGammaLo, SpanHi)
  ELSE /\ DOMAIN grid = {"C", "epsilon"}
       /\ \A par \in DOMAIN grid :
            IsExpGrid(grid[par], SpanRegressionLo, SpanHi)

Available(r) == {i \in 1..Len(ss) : ~IsNa(ss[i][r])}

RECURSIVE SumOver(_, _)
SumOver(S, r) ==
  IF S = {} THEN 0
  ELSE LET i == CHOOSE i \in S : TRUE IN ss[i][r].n + SumOver(S \ {i}, r)

\* The final score of every row is the mean of its available per-fold
\* scores, and is missing exactly when it has none.
MeanOfAvailable ==
  pc = "test_done" =>
    \A r \in 1..NRows(tdf) :
      IF Available(r) = {} THEN IsNa(results[r])
      ELSE results[r]
             = Num(SumOver(Available(r), r) \div Cardinality(Available(r)))

\* The columns of the table spare_test was called with, the predictors it
\* lacks, and whether one alternate naming supplies them all.
Offered == TestTable(callerDf, contents, args.test).cols

Lacking == Range(artifact.metaData.predictors) \ Range(Offered)

Supplies(c) ==
  \A a \in Lacking :
    /\ HasUnderscore(a)
    /\ c = "int" => ~IntRaises(LastPart(a))
    /\ TestLabel(a, c) \in Range(Offered)

C2_FailsBeforeFitting ==
  /\ trainErr # "none" =>
       fits = <<>> /\ ~artifact.written /\ ss = <<>> /\ ~csv.written
  /\ testErr.kind \in {"MissingPredictors", "UnknownCategoricalValue"} =>
       ss = <<>> /\ results = <<>> /\ ~csv.written

\* spare_train has failed its validation on a table that was too small.
C2_Witness ==
  pc = "train_failed"
    /\ trainErr \in {"InsufficientGroupSize", "InsufficientSampleSize"}

\* C3: when the table lacks predictors, spare_test proceeds, with the
\* columns renamed, whenever one alternate naming supplies a column for every
\* lacking predictor; otherwise it fails with MissingPredictors and names the
\* unresolved columns.
C3_Reconciliation ==
  TrainSucceeded /\ pc \notin {"train_done", "test_filters"} =>
    IF Lacking = {} \/ \E c \in {"int", "raw", "R"} : Supplies(c)
    THEN /\ PastTestFilters
         /\ Range(artifact.metaData.predictors) \subseteq Range(tdf.cols)
    ELSE /\ testErr.kind = "MissingPredictors"
         /\ testErr.named = Lacking

C5_Original ==
  Cardinality(TargetValues) > 2 /\ Validated =>
    IF \A v \in TargetValues : v.t = "num"
    THEN /\ spare_type \in {"none", "regression"}
         /\ trainErr = "none" => spare_type = "regression"
    ELSE trainErr = "NonNumericTarget"

\* C5 amended: ... and spare_train always fails if they are not numeric:
\* with NonNumericTarget when every listed predictor is a column of the
\* table, with MissingPredictors when one is not.
C5_Regression ==
  Cardinality(TargetValues) > 2 /\ Validated =>
    IF \A v \in TargetValues : v.t = "num"
    THEN /\ spare_type \in {"none", "regression"}
         /\ trainErr = "none" => spare_type = "regression"
    ELSE trainErr = IF PredictorsExist THEN "NonNumericTarget"
                    ELSE "MissingPredictors"

\* spare_train has failed with NonNumericTarget though a positive group was
\* given and the table is large enough.
C5_Witness ==
  /\ Cardinality(TargetValues) > 2
  /\ trainErr = "NonNumericTarget"
  /\ args.pos_group # "" /\ NRows(contents) >= MinSampleSize

\* C6: whenever spare_train succeeds, the predictor list of the metadata does
\* not contain the target column.
C6_TargetNotPredictor ==
  TrainSucceeded => args.to_predict \notin Range(metaData.predictors)

C8_MissingValueIsNotFatal ==
  /\ PastTestFilters /\ AnyNa(tdf, artifact.metaData.predictors)
       => "InvalidPredictorValues" \in log
  /\ testErr.kind = "UnknownCategoricalValue" =>
       \E var \in DOMAIN artifact.metaData.categorical_var_map :
         LET m == artifact.metaData.categorical_var_map[var]
         IN m.isDict /\ \E r \in 1..NRows(tdf) :
              LET c == Col(tdf, var)[r]
              IN ~IsNa(c) /\ c \notin Range(m.keys)

C10_TrainedTableIsValid ==
  fits # <<>> =>
    IF spare_type = "classification"
    THEN /\ Cardinality(Range(Col(df, args.to_predict))) = 2
         /\ MinValueCount(Col(df, args.to_predict)) >= MinGroupSize
    ELSE NRows(df) >= MinSampleSize
====
